---- MODULE Spec2Model ----
(***************************************************************************)
(* Model of jonwolski/records-in-rust: src/lib.rs and src/records.rs.      *)
(*                                                                         *)
(* A Record is {a: u32, b: u32, c: bool}.  Three helpers (toggle,          *)
(* increment, accumulate) exist in a by-value form, get_..., and an       *)
(* in-place form, mut_...; seven update_record_... operations chain them.  *)
(*                                                                         *)
(* A u32 is kept at its full width as two 16-bit limbs <<hi, lo>>, so the  *)
(* values near 2^32 - 1 are represented exactly.  `+` on u32 panics on     *)
(* overflow when overflow checks are compiled in (debug) and wraps when    *)
(* they are not (release); the build is chosen nondeterministically.       *)
(***************************************************************************)
EXTENDS Integers, Sequences, FiniteSets

\* ---------------------------------------------------------------- bounds
MaxSmall == 2      \* inputs 0 .. MaxSmall
TopSpan  == 1      \* inputs 2^32-1-TopSpan .. 2^32-1
MaxCalls == 2      \* successive applications per caller
ParSmall == 1      \* small inputs of the two-caller specification

\* ------------------------------------------------------------ u32 values
LimbBase == 2^16

Zero   == <<0, 0>>
One    == <<0, 1>>
U32Max == <<LimbBase - 1, LimbBase - 1>>

\* u32 `+`: the wrapped sum and whether the exact sum exceeds 2^32 - 1
U32Add(x, y) ==
    LET lo == x[2] + y[2]
        hi == x[1] + y[1] + (lo \div LimbBase)
    IN  [val |-> <<hi % LimbBase, lo % LimbBase>>, ovf |-> hi >= LimbBase]

SmallVals(n) == { <<0, k>> : k \in 0..n }
TopVals      == { <<LimbBase - 1, LimbBase - 1 - k>> : k \in 0..TopSpan }
EdgeVals     == { <<0, LimbBase - 1>> }
Vals         == SmallVals(MaxSmall) \cup EdgeVals \cup TopVals
ParVals      == SmallVals(ParSmall) \cup { U32Max }

Record(vs) == [a : vs, b : vs, c : BOOLEAN]

\* ------------------------------------------- helpers, by-value (lib.rs)
\* slip: sets the flag instead of negating it
get_toggled_record_set(record) == [record EXCEPT !.c = TRUE]

get_toggled_record(record) == [record EXCEPT !.c = ~record.c]

\* `record.a + 1`
\* slip: adds 2
get_incremented_sum_by_two(record) == U32Add(record.a, <<0, 2>>)

get_incremented_sum(record) == U32Add(record.a, One)

get_incremented_record(record) ==
    [record EXCEPT !.a = get_incremented_sum(record).val]

\* `record.a + record.b`
get_accumulated_sum(record) == U32Add(record.a, record.b)

\* slip: a is copied, not summed
get_accumulated_record_no_sum(record) ==
    [a |-> record.a, b |-> record.a, c |-> record.c]

get_accumulated_record(record) ==
    [a |-> get_accumulated_sum(record).val, b |-> record.a, c |-> record.c]

\* ------------------------------------------- helpers, in place (lib.rs)
\* slip: the flag is left alone
mut_toggled_record_noop(record) == record

mut_toggled_record(record) == [record EXCEPT !.c = ~record.c]

\* `record.a + 1`
mut_incremented_sum(record) == U32Add(record.a, One)

\* slip: the counter is left alone
mut_incremented_record_noop(record) == record

mut_incremented_record(record) ==
    [record EXCEPT !.a = mut_incremented_sum(record).val]

\* `record.a + record.b`
mut_accumulated_sum(record) == U32Add(record.a, record.b)

\* variant: b takes the value a had before the sum
mut_accumulated_record_old_a(record) ==
    [a |-> mut_accumulated_sum(record).val, b |-> record.a, c |-> record.c]

mut_accumulated_record(record) ==
    LET r1 == [record EXCEPT !.a = mut_accumulated_sum(record).val]
    IN  [r1 EXCEPT !.b = r1.a]

\* ------------------------------------------------------------ records.rs
toggle_record_flag(record) == [record EXCEPT !.c = ~record.c]

records_get_toggled_record(record) == [record EXCEPT !.c = ~record.c]

\* ------------------------------- the seven operations as pure functions
update_record_with_refs(record) ==
    mut_accumulated_record(mut_incremented_record(mut_toggled_record(record)))

update_record_with_ptrs(record) ==
    LET r1 == get_toggled_record(record)
        r2 == get_incremented_record(r1)
    IN  get_accumulated_record(r2)

update_record_with_minimal_vars(record) ==
    get_accumulated_record(get_incremented_record(get_toggled_record(record)))

update_record_with_shadowed_vars(record) ==
    LET tmp0 == record
        tmp1 == get_toggled_record(tmp0)
        tmp2 == get_incremented_record(tmp1)
        tmp3 == get_accumulated_record(tmp2)
    IN  tmp3

update_record_with_mut_tmp_var(record) ==
    LET tmp0 == record
        tmp1 == get_toggled_record(tmp0)
        tmp2 == get_incremented_record(tmp1)
        tmp3 == get_accumulated_record(tmp2)
    IN  tmp3

update_record_no_refs(record) ==
    LET r1 == get_toggled_record(record)
        r2 == get_incremented_record(r1)
    IN  get_accumulated_record(r2)

update_record_mut(record) ==
    LET r0 == record
        r1 == mut_toggled_record(r0)
        r2 == mut_incremented_record(r1)
    IN  mut_accumulated_record(r2)

Ops == { "update_record_with_refs", "update_record_with_ptrs",
         "update_record_with_minimal_vars", "update_record_with_shadowed_vars",
         "update_record_with_mut_tmp_var", "update_record_no_refs",
         "update_record_mut" }

\* operations whose statements act on the caller's record through `record`
DirectOps == { "update_record_with_refs", "update_record_with_ptrs" }
\* operations that work on a temporary and write `*record` once at the end
TmpOps == { "update_record_with_minimal_vars",
            "update_record_with_shadowed_vars",
            "update_record_with_mut_tmp_var" }
\* operations that take the Record by value and return a Record
ByValueOps == { "update_record_no_refs", "update_record_mut" }
\* operations built from the mut_ helpers; the others use the get_ helpers
MutHelperOps == { "update_record_with_refs", "update_record_mut" }
ValueHelperOps == Ops \ MutHelperOps

RunAlone(o, record) ==
    CASE o = "update_record_with_refs"          -> update_record_with_refs(record)
      [] o = "update_record_with_ptrs"          -> update_record_with_ptrs(record)
      [] o = "update_record_with_minimal_vars"  -> update_record_with_minimal_vars(record)
      [] o = "update_record_with_shadowed_vars" -> update_record_with_shadowed_vars(record)
      [] o = "update_record_with_mut_tmp_var"   -> update_record_with_mut_tmp_var(record)
      [] o = "update_record_no_refs"            -> update_record_no_refs(record)
      [] o = "update_record_mut"                -> update_record_mut(record)

\* ----------------------------------------------------------------- state
VARIABLES
    build,   \* "debug": overflow panics; "release": overflow wraps
    op,      \* op[p]: the operation caller p applies
    pc,      \* pc[p]: position of caller p inside the operation
    caller,  \* caller[p]: the Record variable owned by caller p
    local,   \* local[p]: the callee's by-value parameter / tmp
    hist,    \* hist[p]: the first input followed by the result of each call
    ovfAt    \* ovfAt[p]: first step of the current call whose `+` overflowed

vars == <<build, op, pc, caller, local, hist, ovfAt>>

Callers == DOMAIN pc

Last(s) == s[Len(s)]

\* the record the current statement reads and writes
Work(p) == IF op[p] \in DirectOps THEN caller[p] ELSE local[p]

\* the argument of the next call: by-value calls are chained on the
\* returned value, by-reference calls act on the caller's variable
Arg(p) == IF op[p] \in ByValueOps THEN Last(hist[p]) ELSE caller[p]

\* the input of the call in progress, or of the call that just completed
Input(p) ==
    IF pc[p] = "done" THEN hist[p][Len(hist[p]) - 1] ELSE Last(hist[p])

SetWork(p, new) ==
    /\ caller' = IF op[p] \in DirectOps THEN [caller EXCEPT ![p] = new] ELSE caller
    /\ local'  = IF op[p] \in DirectOps THEN local ELSE [local EXCEPT ![p] = new]

\* slip: the working copy is always written to the caller's variable
StoreBack_always(o, callerRec, localRec) == localRec

\* `*record = tmp` (by-reference, temporary) against `record` returned
StoreBack(o, callerRec, localRec) ==
    IF o \in TmpOps THEN localRec ELSE callerRec

InitWith(ps, vs) ==
    /\ build \in {"debug", "release"}
    /\ op \in [ps -> Ops]
    /\ pc = [p \in ps |-> "idle"]
    /\ caller \in [ps -> Record(vs)]
    /\ local = caller
    /\ hist = [p \in ps |-> <<caller[p]>>]
    /\ ovfAt = [p \in ps |-> "none"]

Init == InitWith({1}, Vals)

InitPar == InitWith({1, 2}, ParVals)

Call(p) ==
    /\ pc[p] \in {"idle", "done"}
    /\ Len(hist[p]) <= MaxCalls
    /\ pc' = [pc EXCEPT ![p] = "toggle"]
    /\ local' = [local EXCEPT ![p] = IF op[p] \in DirectOps THEN @ ELSE Arg(p)]
    /\ ovfAt' = [ovfAt EXCEPT ![p] = "none"]
    /\ UNCHANGED <<build, op, caller, hist>>

ToggleStep(p) ==
    /\ pc[p] = "toggle"
    /\ SetWork(p, IF op[p] \in MutHelperOps
                  THEN mut_toggled_record(Work(p))
                  ELSE get_toggled_record(Work(p)))
    /\ pc' = [pc EXCEPT ![p] = "increment"]
    /\ UNCHANGED <<build, op, hist, ovfAt>>

\* a step whose `+` overflows panics in a debug build and wraps otherwise
ArithStep(p, name, next, ovf, new) ==
    /\ pc[p] = name
    /\ ovfAt' = [ovfAt EXCEPT ![p] = IF ovf /\ @ = "none" THEN name ELSE @]
    /\ IF ovf /\ build = "debug"
       THEN /\ pc' = [pc EXCEPT ![p] = "panicked"]
            /\ UNCHANGED <<caller, local>>
       ELSE /\ pc' = [pc EXCEPT ![p] = next]
            /\ SetWork(p, new)
    /\ UNCHANGED <<build, op, hist>>

IncrementStep(p) ==
    ArithStep(p, "increment", "accumulate",
              IF op[p] \in MutHelperOps
              THEN mut_incremented_sum(Work(p)).ovf
              ELSE get_incremented_sum(Work(p)).ovf,
              IF op[p] \in MutHelperOps
              THEN mut_incremented_record(Work(p))
              ELSE get_incremented_record(Work(p)))

AccumulateStep(p) ==
    ArithStep(p, "accumulate", "finish",
              IF op[p] \in MutHelperOps
              THEN mut_accumulated_sum(Work(p)).ovf
              ELSE get_accumulated_sum(Work(p)).ovf,
              IF op[p] \in MutHelperOps
              THEN mut_accumulated_record(Work(p))
              ELSE get_accumulated_record(Work(p)))

Finish(p) ==
    /\ pc[p] = "finish"
    /\ caller' = [caller EXCEPT ![p] = StoreBack(op[p], @, local[p])]
    /\ hist' = [hist EXCEPT ![p] = Append(@, Work(p))]
    /\ pc' = [pc EXCEPT ![p] = "done"]
    /\ UNCHANGED <<build, op, local, ovfAt>>

Next ==
    \E p \in Callers :
        \/ Call(p)
        \/ ToggleStep(p)
        \/ IncrementStep(p)
        \/ AccumulateStep(p)
        \/ Finish(p)

Spec == Init /\ [][Next]_vars

SpecPar == InitPar /\ [][Next]_vars

TypeOK ==
    /\ build \in {"debug", "release"}
    /\ \A p \in Callers :
        /\ op[p] \in Ops
        /\ pc[p] \in {"idle", "toggle", "increment", "accumulate", "finish",
                      "done", "panicked"}
        /\ Len(hist[p]) \in 1..(MaxCalls + 1)
        /\ ovfAt[p] \in {"none", "increment", "accumulate"}

\* ================================================================ claims
Result(p) == Last(hist[p])

Completed(p) == pc[p] = "done"

\* exact values the canonical algorithm names: a1 = a + 1, a' = a1 + b
Incremented(R) == U32Add(R.a, One)
FinalSum(R) == U32Add(Incremented(R).val, R.b)

\* R.a + 1 + R.b does not overflow 32 bits
NoOverflow(R) == ~Incremented(R).ovf /\ ~FinalSum(R).ovf

\* C1: for every input without overflow, the result an operation leaves
\* equals the result of every one of the seven operations on that input.
C1_AllStylesAgree ==
    \A p \in Callers :
        (Completed(p) /\ NoOverflow(Input(p)))
            => \A o \in Ops : Result(p) = RunAlone(o, Input(p))

\* C2: for every input without overflow and every operation, the resulting
\* b equals R.a + 1.
C2_ResultBIsIncrementedA ==
    \A p \in Callers :
        (Completed(p) /\ NoOverflow(Input(p)))
            => Result(p).b = Incremented(Input(p)).val

\* C3: for every input without overflow and every operation, the resulting
\* a equals (R.a + 1) + R.b with R.b the value of b on entry.
C3_ResultAIsSum ==
    \A p \in Callers :
        (Completed(p) /\ NoOverflow(Input(p)))
            => /\ Result(p).a = FinalSum(Input(p)).val
               /\ \A o \in Ops : RunAlone(o, Input(p)).a = FinalSum(Input(p)).val

C3_Witness ==
    \E p \in Callers :
        /\ Completed(p) /\ NoOverflow(Input(p))
        /\ Input(p).b # Zero
        /\ op[p] = "update_record_with_minimal_vars"
        /\ Result(p).a = FinalSum(Input(p)).val

\* C4: for every input without overflow and every operation, the resulting
\* c is the negation of R.c, and c changes in the toggle step only.
C4_FlagToggledOnce ==
    \A p \in Callers :
        NoOverflow(Input(p)) =>
            /\ pc[p] = "toggle" => Work(p).c = Input(p).c
            /\ pc[p] \in {"increment", "accumulate", "finish"}
                   => Work(p).c = ~Input(p).c
            /\ Completed(p) =>
                   /\ Result(p).c = ~Input(p).c
                   /\ \A o \in Ops : RunAlone(o, Input(p)).c = ~Input(p).c

C4_Witness ==
    \E p \in Callers :
        /\ Completed(p) /\ NoOverflow(Input(p))
        /\ op[p] = "update_record_with_refs"
        /\ Input(p).c /\ ~Result(p).c

\* C5 (as stated): whenever the final addition, incremented a plus original
\* b, does not overflow, no step of the operation overflows: in particular
\* the increment a + 1 never does.
C5_OnlyFinalAdditionOverflows ==
    \A p \in Callers :
        ~FinalSum(Input(p)).ovf
            => ovfAt[p] = "none" /\ pc[p] # "panicked"

\* C5 (amended): overflow happens in the increment step exactly for
\* R.a = 2^32 - 1 and otherwise only in the final addition; when R.a + 1
\* and (R.a + 1) + R.b both fit in 32 bits no step overflows and the
\* operation does not panic.
C5_OverflowOnlyInIncrementOrFinalAddition ==
    \A p \in Callers :
        /\ NoOverflow(Input(p)) => ovfAt[p] = "none" /\ pc[p] # "panicked"
        /\ ovfAt[p] = "increment" => Input(p).a = U32Max
        /\ ovfAt[p] = "accumulate" => FinalSum(Input(p)).ovf
        /\ pc[p] = "panicked" => build = "debug" /\ ovfAt[p] # "none"

C5_Witness ==
    \E p \in Callers :
        /\ Completed(p) /\ NoOverflow(Input(p))
        /\ FinalSum(Input(p)).val = U32Max
        /\ ovfAt[p] = "none"

\* C6: two successive applications without overflow restore c but not the
\* pair (a, b); the second result also differs from the first.
C6_TwiceRestoresFlagOnly ==
    \A p \in Callers :
        \A i \in 1..(Len(hist[p]) - 2) :
            (NoOverflow(hist[p][i]) /\ NoOverflow(hist[p][i + 1]))
                => /\ hist[p][i + 2].c = hist[p][i].c
                   /\ <<hist[p][i + 2].a, hist[p][i + 2].b>>
                          # <<hist[p][i].a, hist[p][i].b>>
                   /\ hist[p][i + 2] # hist[p][i + 1]

C6_Witness ==
    \E p \in Callers :
        /\ Len(hist[p]) >= 3
        /\ NoOverflow(hist[p][1]) /\ NoOverflow(hist[p][2])
        /\ hist[p][3].c = hist[p][1].c
        /\ hist[p][3].a # hist[p][1].a

\* C7: for every record reaching the accumulate step whose sum does not
\* overflow, mut_accumulated_record leaves what get_accumulated_record
\* returns: a = r.a + r.b, b = r.a before the step, c unchanged.
C7_AccumulateHelpersAgree ==
    \A p \in Callers :
        (pc[p] = "accumulate" /\ ~U32Add(Work(p).a, Work(p).b).ovf)
            => LET r == Work(p)
                   expected == [a |-> U32Add(r.a, r.b).val, b |-> r.a, c |-> r.c]
               IN  /\ get_accumulated_record(r) = expected
                   /\ mut_accumulated_record(r) = expected

\* C8: a by-value operation never changes the caller's own Record, and
\* whatever the interleaving with the other caller's steps, the value a
\* completed call leaves is the value of the same operation run alone.
C8_CallersAreIsolated ==
    \A p \in Callers :
        /\ op[p] \in ByValueOps => caller[p] = hist[p][1]
        /\ Completed(p) =>
               /\ Result(p) = RunAlone(op[p], Input(p))
               /\ op[p] \notin ByValueOps => caller[p] = Result(p)

C8_Witness ==
    \E p, q \in Callers :
        /\ p # q
        /\ op[p] \in ByValueOps /\ op[q] \notin ByValueOps
        /\ Completed(p) /\ Len(hist[p]) = 3
        /\ caller[p] = hist[p][1] /\ Result(p) # caller[p]
        /\ pc[q] = "accumulate" /\ Len(hist[q]) = 2
        /\ hist[p][1] # hist[q][1]

\* C9: toggle negates c and leaves a, b; increment sets a to a + 1 (when
\* a < 2^32 - 1) and leaves b, c; in-place and by-value forms agree; the
\* record after each of the two steps differs from the one before in
\* exactly that field.
C9_ToggleAndIncrementFrame ==
    \A p \in Callers :
        LET r == Work(p)
            toggledIn == [Input(p) EXCEPT !.c = ~Input(p).c]
        IN  /\ get_toggled_record(r) = [r EXCEPT !.c = ~r.c]
            /\ mut_toggled_record(r) = get_toggled_record(r)
            /\ toggle_record_flag(r) = get_toggled_record(r)
            /\ records_get_toggled_record(r) = get_toggled_record(r)
            /\ mut_incremented_record(r) = get_incremented_record(r)
            /\ r.a # U32Max =>
                   get_incremented_record(r) = [r EXCEPT !.a = U32Add(r.a, One).val]
            /\ pc[p] = "increment" => r = toggledIn
            /\ (pc[p] = "accumulate" /\ Input(p).a # U32Max) =>
                   r = [toggledIn EXCEPT !.a = U32Add(Input(p).a, One).val]

C9_Witness ==
    \E p \in Callers :
        /\ pc[p] = "accumulate"
        /\ op[p] \in MutHelperOps
        /\ Input(p).a # U32Max /\ Input(p).b # Zero
        /\ Work(p).c = ~Input(p).c
        /\ Work(p).a = U32Add(Input(p).a, One).val
        /\ Work(p).b = Input(p).b

\* C10: without overflow the mut_-helper operations and the get_-helper
\* operations agree on the resulting a and c; the mut_-helper operations end
\* with b = a; the two groups agree on b exactly when R.b = 0.
C10_GroupsAgreeOnBIffBZero ==
    \A p \in Callers :
        (Completed(p) /\ NoOverflow(Input(p))) =>
            LET others == IF op[p] \in MutHelperOps
                          THEN ValueHelperOps ELSE MutHelperOps
            IN  /\ \A o \in others :
                       /\ Result(p).a = RunAlone(o, Input(p)).a
                       /\ Result(p).c = RunAlone(o, Input(p)).c
                       /\ (Result(p).b = RunAlone(o, Input(p)).b)
                              <=> (Input(p).b = Zero)
                /\ op[p] \in MutHelperOps => Result(p).b = Result(p).a
                /\ \A o \in MutHelperOps :
                       RunAlone(o, Input(p)).b = RunAlone(o, Input(p)).a

C10_Witness ==
    \E p \in Callers :
        /\ Completed(p) /\ NoOverflow(Input(p))
        /\ op[p] = "update_record_mut"
        /\ Input(p).b # Zero
        /\ Result(p).b = Result(p).a
        /\ Result(p).b # update_record_no_refs(Input(p)).b
====
